---------------------------- MODULE Spec2Model ----------------------------
(* A model of the spending tracker of src/app.py: upload of bank CSV       *)
(* exports, detection of the bank, normalization into canonical            *)
(* transactions, payment-row filtering, and the two report pages.          *)
(*                                                                         *)
(* Representation.  Text is a TLA+ string.  A nullable value is a tuple:   *)
(* <<>> is null (None / NaN / NaT), <<v>> is the value v; a date is the    *)
(* tuple <<year, month, day>>.  Amounts are integers (currency units), so  *)
(* float rounding is outside the model.  A DataFrame is a record           *)
(* [columns, rows]: a set of column names and a sequence of rows, each a   *)
(* function from the column names to cells.                                *)
EXTENDS Integers, Sequences, FiniteSets, TLC

VARIABLES uploaded_files, i, bank, dfs, warnings, concat_data, all_data,
          pc, page, months, selected_month, month_df, spending, income,
          net, cat_sum, date_range, category, shown, granularity,
          grouped, totals

vars == <<uploaded_files, i, bank, dfs, warnings, concat_data, all_data,
          pc, page, months, selected_month, month_df, spending, income,
          net, cat_sum, date_range, category, shown, granularity,
          grouped, totals>>

-----------------------------------------------------------------------------
(* Bounds of the model.                                                    *)

\* Most files in one upload batch.
MaxFiles == 3

\* Most rows of a table given to a normalizer on its own.
MaxRows == 2

-----------------------------------------------------------------------------
(* Text.                                                                   *)

Null == <<>>

Some(v) == <<v>>

IsNull(x) == x = <<>>

Upper == "ABCDEFGHIJKLMNOPQRSTUVWXYZ"

LowerLetters == "abcdefghijklmnopqrstuvwxyz"

Digits == "0123456789"

\* The characters of period keys, in code-point order.
KeyChars == "-0123456789NTa"

CharAt(s, k) == SubSeq(s, k, k)

\* Position of the one-character string c in s, 0 when absent.
RECURSIVE IndexFrom(_, _, _)
IndexFrom(c, s, k) ==
    IF k > Len(s) THEN 0
    ELSE IF CharAt(s, k) = c THEN k
    ELSE IndexFrom(c, s, k + 1)

IndexOf(c, s) == IndexFrom(c, s, 1)

LowerChar(c) ==
    LET k == IndexOf(c, Upper)
    IN  IF k = 0 THEN c ELSE CharAt(LowerLetters, k)

\* str.lower()
RECURSIVE lower(_)
lower(s) == IF s = "" THEN "" ELSE LowerChar(Head(s)) \o lower(Tail(s))

\* Python's `p in s` for strings: a scan for the first match.
RECURSIVE InStr(_, _)
InStr(p, s) ==
    IF Len(s) < Len(p) THEN FALSE
    ELSE IF SubSeq(s, 1, Len(p)) = p THEN TRUE
    ELSE InStr(p, Tail(s))

IsDigit(c) == IndexOf(c, Digits) # 0

DigitVal(c) == IndexOf(c, Digits) - 1

RECURSIVE AllDigits(_)
AllDigits(s) == s = "" \/ (IsDigit(Head(s)) /\ AllDigits(Tail(s)))

RECURSIVE DigitsVal(_, _)
DigitsVal(s, acc) ==
    IF s = "" THEN acc ELSE DigitsVal(Tail(s), 10 * acc + DigitVal(Head(s)))

\* Decimal text of n in exactly w digits (n < 10^w).
RECURSIVE ZeroPad(_, _)
ZeroPad(n, w) ==
    IF w = 0 THEN "" ELSE ZeroPad(n \div 10, w - 1) \o CharAt(Digits, (n % 10) + 1)

-----------------------------------------------------------------------------
(* Cells of a raw table, as pd.read_csv delivers them: a number, a text,   *)
(* or NaN for an empty field.                                              *)

NumCell(n) == [k |-> "num", n |-> n, s |-> ""]

TextCell(s) == [k |-> "text", n |-> 0, s |-> s]

NaNCell == [k |-> "nan", n |-> 0, s |-> ""]

-----------------------------------------------------------------------------
(* Configuration tables.                                                   *)

CHASE_MAPS ==
    << ("Trans Date" :> "date") @@ ("Description" :> "description")
         @@ ("Category" :> "category") @@ ("Amount" :> "amount"),
       ("Transaction Date" :> "date") @@ ("Description" :> "description")
         @@ ("Category" :> "category") @@ ("Amount" :> "amount") >>

CAPONE_MAP ==
    ("Transaction Date" :> "date") @@ ("Description" :> "description")
      @@ ("Category" :> "category") @@ ("Debit" :> "debit")
      @@ ("Credit" :> "credit")

PAYMENT_PHRASES ==
    << "autopay pymt", "payment thank you", "automatic payment",
       "returned payment", "reversal" >>

CATEGORY_MAP ==
    ("Groceries" :> "Groceries") @@ ("Food & Drink" :> "Dining Out")
      @@ ("Shopping" :> "Shopping") @@ ("Merchandise" :> "Shopping")
      @@ ("Personal" :> "Personal/Health")
      @@ ("Health & Wellness" :> "Personal/Health")
      @@ ("Education" :> "Personal/Health")
      @@ ("Insurance" :> "Bills & Utilities")
      @@ ("Internet" :> "Bills & Utilities")
      @@ ("Gas" :> "Auto & Travel") @@ ("Automotive" :> "Auto & Travel")
      @@ ("Travel" :> "Auto & Travel")

-----------------------------------------------------------------------------
(* pandas conversions.                                                     *)

NaT == Null

NaN == Null

IsLeap(y) == (y % 4 = 0 /\ y % 100 # 0) \/ y % 400 = 0

DaysIn(y, m) ==
    IF m = 2 THEN (IF IsLeap(y) THEN 29 ELSE 28)
    ELSE IF m \in {4, 6, 9, 11} THEN 30 ELSE 31

\* pd.to_datetime(text, errors='coerce') on the MM/DD/YYYY dates of the bank
\* exports: the date, or NaT for any text that is not such a date.
ParseDateText(s) ==
    IF /\ Len(s) = 10
       /\ CharAt(s, 3) = "/"
       /\ CharAt(s, 6) = "/"
       /\ AllDigits(SubSeq(s, 1, 2) \o SubSeq(s, 4, 5) \o SubSeq(s, 7, 10))
    THEN LET m == DigitsVal(SubSeq(s, 1, 2), 0)
             d == DigitsVal(SubSeq(s, 4, 5), 0)
             y == DigitsVal(SubSeq(s, 7, 10), 0)
         IN  IF m \in 1..12 /\ y >= 1 /\ d \in 1..DaysIn(y, m)
             THEN <<y, m, d>> ELSE NaT
    ELSE NaT

\* pd.to_datetime(cell, errors='coerce')
to_datetime(cell) ==
    IF cell.k = "text" THEN ParseDateText(cell.s) ELSE NaT

\* pd.to_numeric(text, errors='coerce') on integer literals.
ParseNumberText(s) ==
    LET body == IF s # "" /\ Head(s) = "-" THEN Tail(s) ELSE s
        neg  == s # "" /\ Head(s) = "-"
    IN  IF body # "" /\ AllDigits(body)
        THEN Some(IF neg THEN 0 - DigitsVal(body, 0) ELSE DigitsVal(body, 0))
        ELSE NaN

\* pd.to_numeric(cell, errors='coerce')
to_numeric(cell) ==
    IF cell.k = "num" THEN Some(cell.n)
    ELSE IF cell.k = "text" THEN ParseNumberText(cell.s)
    ELSE NaN

\* Series.fillna(0)
fillna0(x) == IF IsNull(x) THEN 0 ELSE x[1]

\* A text column's value as the canonical frame keeps it: the text, or null.
ObjectValue(cell) == IF cell.k = "text" THEN Some(cell.s) ELSE Null

\* df.rename(columns=mapping): the frame with the mapped columns renamed.
Renamed(c, mapping) == IF c \in DOMAIN mapping THEN mapping[c] ELSE c

Source(c2, df, mapping) == CHOOSE c \in df.columns : Renamed(c, mapping) = c2

rename(df, mapping) ==
    LET cols == {Renamed(c, mapping) : c \in df.columns}
    IN  [columns |-> cols,
         rows |-> [r \in DOMAIN df.rows |->
                     [c2 \in cols |-> df.rows[r][Source(c2, df, mapping)]]]]

\* .map(CATEGORY_MAP).fillna('Other')
GroupedCategory(cat) ==
    IF ~IsNull(cat) /\ cat[1] \in DOMAIN CATEGORY_MAP
    THEN CATEGORY_MAP[cat[1]] ELSE "Other"

-----------------------------------------------------------------------------
(* Bank detection and the normalizers.  A normalizer returns               *)
(* [ok, rows, err]: the canonical rows, or the exception's message.        *)

\* detect_bank with its two tests in the other order.
detect_bank_DebitFirst(df) ==
    IF "Debit" \in df.columns THEN "capone"
    ELSE IF "Amount" \in df.columns THEN "chase"
    ELSE "unknown"

detect_bank(df) ==
    IF "Amount" \in df.columns THEN "chase"
    ELSE IF "Debit" \in df.columns THEN "capone"
    ELSE "unknown"

\* The column of a renamed frame, or the None that lines 45-47 and 58-60
\* backfill when the frame has no such column.
Backfilled(df, row, col) ==
    IF col \in df.columns THEN ObjectValue(row[col]) ELSE Null

Raised(msg) == [ok |-> FALSE, rows |-> <<>>, err |-> msg]

Returned(rows) == [ok |-> TRUE, rows |-> rows, err |-> ""]

\* all(col in df.columns for col in mapping.keys())
MappingPresent(mapping, df) == \A col \in DOMAIN mapping : col \in df.columns

\* ChaseRow without the sign inversion of line 43.
ChaseRowUninverted(d, row) ==
    [date        |-> to_datetime(row["date"]),
     description |-> Backfilled(d, row, "description"),
     category    |-> Backfilled(d, row, "category"),
     amount      |-> to_numeric(row["amount"]),
     account     |-> "Chase"]

ChaseRow(d, row) ==
    [date        |-> to_datetime(row["date"]),
     description |-> Backfilled(d, row, "description"),
     category    |-> Backfilled(d, row, "category"),
     amount      |-> LET a == to_numeric(row["amount"])
                     IN  IF IsNull(a) THEN NaN ELSE Some(a[1] * (0 - 1)),
     account     |-> "Chase"]

\* Lines 41-48: the frame renamed by a mapping and converted.
ApplyChaseMapping(df, mapping) ==
    LET d == rename(df, mapping)
    IN  Returned([r \in DOMAIN d.rows |-> ChaseRow(d, d.rows[r])])

\* normalize_chase, from candidate m of CHASE_MAPS on.
RECURSIVE ChaseFrom(_, _)
ChaseFrom(df, m) ==
    IF m > Len(CHASE_MAPS)
    THEN Raised("No valid Chase mapping found")
    ELSE IF MappingPresent(CHASE_MAPS[m], df)
         THEN ApplyChaseMapping(df, CHASE_MAPS[m])
         ELSE ChaseFrom(df, m + 1)

\* normalize_chase trying the newer mapping before the older one.
normalize_chase_NewestFirst(df) ==
    IF MappingPresent(CHASE_MAPS[2], df)
    THEN ApplyChaseMapping(df, CHASE_MAPS[2])
    ELSE ChaseFrom(df, 1)

normalize_chase(df) == ChaseFrom(df, 1)

CaponeRow(d, row) ==
    LET debit  == fillna0(to_numeric(row["debit"]))
        credit == fillna0(to_numeric(row["credit"]))
    IN  [date        |-> to_datetime(row["date"]),
         description |-> Backfilled(d, row, "description"),
         category    |-> Backfilled(d, row, "category"),
         amount      |-> Some(debit - credit),
         account     |-> "Capital One"]

\* normalize_capone.  df['date'] raises KeyError on a frame without the
\* column; df.get(col, 0) is the int 0 when the column is absent, which
\* pd.to_numeric returns as it is, and an int has no fillna.
normalize_capone(df) ==
    LET d == rename(df, CAPONE_MAP)
    IN  IF "date" \notin d.columns THEN Raised("'date'")
        ELSE IF "debit" \notin d.columns \/ "credit" \notin d.columns
             THEN Raised("'int' object has no attribute 'fillna'")
        ELSE Returned([r \in DOMAIN d.rows |-> CaponeRow(d, d.rows[r])])

\* normalizers[bank](df)
Normalize(b, df) ==
    IF b = "chase" THEN normalize_chase(df) ELSE normalize_capone(df)

\* Line 116: the grouped category added to each normalized row.
WithGrouped(row) ==
    [date |-> row.date, description |-> row.description,
     category |-> row.category, amount |-> row.amount,
     account |-> row.account,
     grouped_category |-> GroupedCategory(row.category)]

-----------------------------------------------------------------------------
(* Uploaded files.  A raw row is written once for every header a bank      *)
(* export may carry; a table keeps the cells of its own columns.           *)

Headers ==
    {"Trans Date", "Transaction Date", "Description", "Category",
     "Amount", "Debit", "Credit"}

RawRow(date, description, cat, amount, debit, credit) ==
    ("Trans Date" :> date[1]) @@ ("Transaction Date" :> date[2])
      @@ ("Description" :> description) @@ ("Category" :> cat)
      @@ ("Amount" :> amount) @@ ("Debit" :> debit) @@ ("Credit" :> credit)

\* The same cell under "Trans Date" and under "Transaction Date".
Both(cell) == <<cell, cell>>

Table(columns, rawRows) ==
    [columns |-> columns,
     rows |-> [r \in DOMAIN rawRows |-> [c \in columns |-> rawRows[r][c]]]]

RowGroceries ==
    RawRow(Both(TextCell("01/05/2024")), TextCell("WHOLE FOODS"),
           TextCell("Groceries"), NumCell(0 - 50), NumCell(50), NaNCell)

RowMarket ==
    RawRow(Both(TextCell("01/20/2024")), TextCell("FARMERS MARKET"),
           TextCell("Groceries"), NumCell(0 - 20), NumCell(20), NaNCell)

RowDining ==
    RawRow(Both(TextCell("01/20/2024")), TextCell("TACO STAND"),
           TextCell("Food & Drink"), NumCell(0 - 30), NumCell(30), NaNCell)

RowPayroll ==
    RawRow(Both(TextCell("01/15/2024")), TextCell("PAYROLL DEPOSIT"),
           NaNCell, NumCell(1000), NaNCell, NumCell(1000))

RowPayment ==
    RawRow(Both(TextCell("02/03/2024")), TextCell("Payment Thank You-Mobile"),
           NaNCell, NumCell(500), NaNCell, NumCell(500))

RowAutopay ==
    RawRow(Both(TextCell("10/02/2024")), TextCell("CAPITAL ONE AUTOPAY PYMT"),
           TextCell("Payment/Credit"), NumCell(200), NaNCell, NumCell(200))

RowNearMiss ==
    RawRow(Both(TextCell("02/14/2024")), TextCell("PAYMENT THANKS FLORIST"),
           TextCell("Shopping"), NumCell(0 - 25), NumCell(25), NaNCell)

RowBadDate ==
    RawRow(Both(TextCell("pending")), TextCell("COFFEE"),
           TextCell("Food & Drink"), NumCell(0 - 4), NumCell(4), NaNCell)

RowBadAmount ==
    RawRow(Both(TextCell("02/10/2024")), NaNCell, TextCell("Travel"),
           TextCell("n/a"), TextCell("n/a"), TextCell("7"))

\* Bought on the 9th and booked on the 11th: the two date columns differ.
RowAirline ==
    RawRow(<<TextCell("10/09/2024"), TextCell("10/11/2024")>>,
           TextCell("AIRLINE"), TextCell("Travel"),
           NumCell(0 - 120), NumCell(120), NumCell(20))

\* The tables a batch is drawn from: complete exports of both banks in
\* both Chase header generations, a Chase export without its Category
\* column, a table of no known bank, and an export of payments only.
Catalog ==
    { Table({"Transaction Date", "Description", "Category", "Amount"},
            <<RowGroceries, RowDining, RowPayroll>>),
      Table({"Trans Date", "Description", "Category", "Amount"},
            <<RowBadDate, RowPayment, RowNearMiss>>),
      Table({"Transaction Date", "Description", "Category", "Debit", "Credit"},
            <<RowGroceries, RowMarket, RowAirline, RowAutopay, RowBadAmount>>),
      Table({"Transaction Date", "Description", "Amount"},
            <<RowGroceries>>),
      Table({"Transaction Date", "Description", "Category"},
            <<RowDining>>),
      Table({"Transaction Date", "Description", "Category", "Amount"},
            <<RowPayment>>) }

\* The rows of the tables given to one normalizer on its own.
RowPool == {RowGroceries, RowPayroll, RowBadDate, RowBadAmount, RowAirline}

FileNames == <<"a.csv", "b.csv", "c.csv", "d.csv", "e.csv">>

SeqsUpTo(S, n) == UNION {[1..k -> S] : k \in 0..n}

\* A batch: the k-th uploaded file carries the k-th file name.
Batch(tables) ==
    [k \in DOMAIN tables |-> [name |-> FileNames[k], df |-> tables[k]]]

-----------------------------------------------------------------------------
(* The upload loop, lines 108-121.                                         *)

Unset == <<>>

ViewsUnset ==
    /\ page = "" /\ months = <<>> /\ selected_month = ""
    /\ month_df = <<>> /\ spending = 0 /\ income = 0 /\ net = 0
    /\ cat_sum = {} /\ date_range = Unset /\ category = ""
    /\ shown = <<>> /\ granularity = "" /\ grouped = {} /\ totals = {}

viewVars ==
    <<page, months, selected_month, month_df, spending, income, net,
      cat_sum, date_range, category, shown, granularity, grouped, totals>>

InitWith(files) ==
    /\ uploaded_files = files
    /\ i = 0
    /\ bank = ""
    /\ dfs = <<>>
    /\ warnings = <<>>
    /\ concat_data = <<>>
    /\ all_data = <<>>
    /\ pc = "loop"
    /\ ViewsUnset

Init == \E tables \in SeqsUpTo(Catalog, MaxFiles) : InitWith(Batch(tables))

\* One table of any header set, for the detector and the normalizers.
InitNorm ==
    \E columns \in SUBSET Headers, rawRows \in SeqsUpTo(RowPool, MaxRows) :
        InitWith(Batch(<<Table(columns, rawRows)>>))

\* The loop without isolation: a file that fails ends the loop.
ProcessFileAborting ==
    /\ pc = "loop"
    /\ i < Len(uploaded_files)
    /\ LET file == uploaded_files[i + 1]
           b    == detect_bank(file.df)
           res  == Normalize(b, file.df)
       IN  /\ bank' = b
           /\ IF b \in {"chase", "capone"} /\ res.ok
              THEN /\ dfs' = Append(dfs, [r \in DOMAIN res.rows |->
                                           WithGrouped(res.rows[r])])
                   /\ i' = i + 1
                   /\ UNCHANGED warnings
              ELSE /\ warnings' = Append(warnings,
                        "Error normalizing " \o file.name)
                   /\ i' = Len(uploaded_files)
                   /\ UNCHANGED dfs
    /\ UNCHANGED <<uploaded_files, concat_data, all_data, pc, viewVars>>

\* One iteration of the loop over uploaded_files.
ProcessFile ==
    /\ pc = "loop"
    /\ i < Len(uploaded_files)
    /\ LET file == uploaded_files[i + 1]
           b    == detect_bank(file.df)
       IN  /\ bank' = b
           /\ IF b \in {"chase", "capone"}
              THEN LET res == Normalize(b, file.df)
                   IN  IF res.ok
                       THEN /\ dfs' = Append(dfs, [r \in DOMAIN res.rows |->
                                                    WithGrouped(res.rows[r])])
                            /\ UNCHANGED warnings
                       ELSE /\ warnings' = Append(warnings,
                                 "Error normalizing " \o file.name \o ": " \o res.err)
                            /\ UNCHANGED dfs
              ELSE /\ warnings' = Append(warnings,
                        "Unknown format for file: " \o file.name)
                   /\ UNCHANGED dfs
    /\ i' = i + 1
    /\ UNCHANGED <<uploaded_files, concat_data, all_data, pc, viewVars>>

-----------------------------------------------------------------------------
(* Concatenation and the payment filter, lines 122-131.                    *)

\* pd.concat(dfs, ignore_index=True)
RECURSIVE concat(_)
concat(frames) ==
    IF frames = <<>> THEN <<>> ELSE Head(frames) \o concat(Tail(frames))

\* any(phrase in desc for phrase in PAYMENT_PHRASES)
RECURSIVE AnyPhraseFrom(_, _)
AnyPhraseFrom(desc, k) ==
    IF k > Len(PAYMENT_PHRASES) THEN FALSE
    ELSE IF InStr(PAYMENT_PHRASES[k], desc) THEN TRUE
    ELSE AnyPhraseFrom(desc, k + 1)

\* is_payment_row without the lower-casing of line 128.
is_payment_row_CaseSensitive(description) ==
    IF IsNull(description) THEN FALSE
    ELSE AnyPhraseFrom(description[1], 1)

is_payment_row(description) ==
    IF IsNull(description) THEN FALSE
    ELSE AnyPhraseFrom(lower(description[1]), 1)

\* all_data[mask], mask being `not is_payment_row(description)`
RECURSIVE WithoutPayments(_)
WithoutPayments(rows) ==
    IF rows = <<>> THEN <<>>
    ELSE IF is_payment_row(Head(rows).description)
         THEN WithoutPayments(Tail(rows))
         ELSE <<Head(rows)>> \o WithoutPayments(Tail(rows))

ConcatAndFilter ==
    /\ pc = "loop"
    /\ i = Len(uploaded_files)
    /\ dfs # <<>>
    /\ concat_data' = concat(dfs)
    /\ all_data' = WithoutPayments(concat(dfs))
    /\ pc' = "page"
    /\ UNCHANGED <<uploaded_files, i, bank, dfs, warnings, viewVars>>

\* No file was uploaded, or none was normalized: nothing is rendered.
NoData ==
    /\ pc = "loop"
    /\ i = Len(uploaded_files)
    /\ dfs = <<>>
    /\ pc' = "done"
    /\ UNCHANGED <<uploaded_files, i, bank, dfs, warnings, concat_data,
                   all_data, viewVars>>

-----------------------------------------------------------------------------
(* Period keys, date comparison and aggregation.                           *)

\* Decimal text of n without padding.
RECURSIVE Decimal(_)
Decimal(n) ==
    IF n < 10 THEN CharAt(Digits, n + 1)
    ELSE Decimal(n \div 10) \o CharAt(Digits, (n % 10) + 1)

\* MonthKey with the month not padded to two digits.
MonthKeyUnpadded(date) ==
    IF IsNull(date) THEN "NaT"
    ELSE Decimal(date[1]) \o "-" \o Decimal(date[2])

\* date.dt.to_period('M').astype(str): "YYYY-MM", and "NaT" for a null date.
MonthKey(date) ==
    IF IsNull(date) THEN "NaT"
    ELSE ZeroPad(date[1], 4) \o "-" \o ZeroPad(date[2], 2)

\* date.dt.date.astype(str): "YYYY-MM-DD".
DayKey(date) ==
    IF IsNull(date) THEN "NaT"
    ELSE ZeroPad(date[1], 4) \o "-" \o ZeroPad(date[2], 2)
           \o "-" \o ZeroPad(date[3], 2)

\* Python's order of strings: by code point, a proper prefix first.
RECURSIVE StrLess(_, _)
StrLess(a, b) ==
    IF b = "" THEN FALSE
    ELSE IF a = "" THEN TRUE
    ELSE IF Head(a) = Head(b) THEN StrLess(Tail(a), Tail(b))
    ELSE IndexOf(Head(a), KeyChars) < IndexOf(Head(b), KeyChars)

\* Timestamp order; every comparison with NaT is False.
DateLE(a, b) ==
    /\ ~IsNull(a)
    /\ ~IsNull(b)
    /\ \/ a[1] < b[1]
       \/ a[1] = b[1] /\ a[2] < b[2]
       \/ a[1] = b[1] /\ a[2] = b[2] /\ a[3] <= b[3]

InRange(date, range) == DateLE(range[1], date) /\ DateLE(date, range[2])

\* NaN > 0 and NaN < 0 are both False.
IsPositive(amount) == ~IsNull(amount) /\ amount[1] > 0

IsNegative(amount) == ~IsNull(amount) /\ amount[1] < 0

\* Series.sum() of the amount column; NaN is skipped.
RECURSIVE SumAmount(_)
SumAmount(rows) ==
    IF rows = <<>> THEN 0
    ELSE fillna0(Head(rows).amount) + SumAmount(Tail(rows))

RECURSIVE PositiveRows(_)
PositiveRows(rows) ==
    IF rows = <<>> THEN <<>>
    ELSE IF IsPositive(Head(rows).amount)
         THEN <<Head(rows)>> \o PositiveRows(Tail(rows))
         ELSE PositiveRows(Tail(rows))

RECURSIVE NegativeRows(_)
NegativeRows(rows) ==
    IF rows = <<>> THEN <<>>
    ELSE IF IsNegative(Head(rows).amount)
         THEN <<Head(rows)>> \o NegativeRows(Tail(rows))
         ELSE NegativeRows(Tail(rows))

RECURSIVE RowsOfMonth(_, _)
RowsOfMonth(rows, month) ==
    IF rows = <<>> THEN <<>>
    ELSE IF MonthKey(Head(rows).date) = month
         THEN <<Head(rows)>> \o RowsOfMonth(Tail(rows), month)
         ELSE RowsOfMonth(Tail(rows), month)

RECURSIVE RowsInRange(_, _)
RowsInRange(rows, range) ==
    IF rows = <<>> THEN <<>>
    ELSE IF InRange(Head(rows).date, range)
         THEN <<Head(rows)>> \o RowsInRange(Tail(rows), range)
         ELSE RowsInRange(Tail(rows), range)

RECURSIVE RowsOfCategory(_, _)
RowsOfCategory(rows, cat) ==
    IF rows = <<>> THEN <<>>
    ELSE IF Head(rows).grouped_category = cat
         THEN <<Head(rows)>> \o RowsOfCategory(Tail(rows), cat)
         ELSE RowsOfCategory(Tail(rows), cat)

\* The period column of lines 205-208.
PeriodKey(date, gran) == IF gran = "Month" THEN MonthKey(date) ELSE DayKey(date)

\* groupby(keys)['amount'].sum(): the rows are taken one by one, each
\* added to the group of its key; acc maps the keys met so far to their sums.
RECURSIVE GroupSum(_, _)
GroupSum(keyed, acc) ==
    IF keyed = <<>> THEN acc
    ELSE LET k == Head(keyed).key
             a == Head(keyed).amount
         IN  GroupSum(Tail(keyed),
                      IF k \in DOMAIN acc
                      THEN [acc EXCEPT ![k] = @ + a]
                      ELSE acc @@ (k :> a))

NoGroups == [k \in {} |-> 0]

\* month_df[amount > 0].groupby('grouped_category')['amount'].sum().reset_index()
CategorySums(rows) ==
    LET pos == PositiveRows(rows)
        acc == GroupSum([r \in DOMAIN pos |->
                           [key |-> pos[r].grouped_category,
                            amount |-> pos[r].amount[1]]], NoGroups)
    IN  {[grouped_category |-> k, amount |-> acc[k]] : k \in DOMAIN acc}

\* df_exp.groupby(['period', 'grouped_category'])['amount'].sum().reset_index()
PeriodCategorySums(rows, gran) ==
    LET acc == GroupSum([r \in DOMAIN rows |->
                           [key |-> <<PeriodKey(rows[r].date, gran),
                                      rows[r].grouped_category>>,
                            amount |-> rows[r].amount[1]]], NoGroups)
    IN  {[period |-> k[1], grouped_category |-> k[2], amount |-> acc[k]] :
            k \in DOMAIN acc}

\* df_exp.groupby('period')['amount'].sum().reset_index()
PeriodSums(rows, gran) ==
    LET acc == GroupSum([r \in DOMAIN rows |->
                           [key |-> PeriodKey(rows[r].date, gran),
                            amount |-> rows[r].amount[1]]], NoGroups)
    IN  {[period |-> k, amount |-> acc[k]] : k \in DOMAIN acc}

\* sorted(keys, reverse=True): the greatest key first.
RECURSIVE SortedReverse(_)
SortedReverse(keys) ==
    IF keys = {} THEN <<>>
    ELSE LET top == CHOOSE k \in keys : \A o \in keys : ~StrLess(k, o)
         IN  <<top>> \o SortedReverse(keys \ {top})

Range(f) == {f[x] : x \in DOMAIN f}

\* Net with its operands exchanged.
NetSwapped(inc, spent) == spent - inc

\* Line 140.
Net(inc, spent) == inc - spent

-----------------------------------------------------------------------------
(* The pages.  The widgets' values are the user's: any month of the        *)
(* selectbox, any of the date ranges below, any listed category.           *)

Date(y, m, d) == <<y, m, d>>

\* A range that begins on the day of a row and ends the day before another,
\* and the whole year.
DateRanges ==
    { <<Date(2024, 1, 20), Date(2024, 10, 10)>>,
      <<Date(2024, 1, 1), Date(2024, 12, 31)>> }

\* Lines 132-193.
Dashboard ==
    /\ pc = "page"
    /\ LET keys == {MonthKey(all_data[r].date) : r \in DOMAIN all_data}
           opts == SortedReverse(keys)
       IN  \E sel \in (IF opts = <<>> THEN {"None"} ELSE Range(opts)) :
             LET mdf == RowsOfMonth(all_data, sel)
                 s   == SumAmount(PositiveRows(mdf))
                 inc == 0 - SumAmount(NegativeRows(mdf))
             IN  /\ months' = opts
                 /\ selected_month' = sel
                 /\ month_df' = mdf
                 /\ spending' = s
                 /\ income' = inc
                 /\ net' = Net(inc, s)
                 /\ cat_sum' = CategorySums(mdf)
    /\ IF all_data # <<>>
       THEN \E range \in DateRanges,
               cat \in {"All"} \cup
                       {all_data[r].grouped_category : r \in DOMAIN all_data} :
              /\ date_range' = range
              /\ category' = cat
              /\ shown' = IF cat # "All"
                          THEN RowsOfCategory(RowsInRange(all_data, range), cat)
                          ELSE RowsInRange(all_data, range)
       ELSE /\ shown' = all_data
            /\ UNCHANGED <<date_range, category>>
    /\ page' = "Dashboard"
    /\ pc' = "done"
    /\ UNCHANGED <<uploaded_files, i, bank, dfs, warnings, concat_data,
                   all_data, granularity, grouped, totals>>

\* Lines 194-228.
SpendingOverTime ==
    /\ pc = "page"
    /\ \E range \in DateRanges, gran \in {"Month", "Day"} :
         LET df_exp == RowsInRange(PositiveRows(all_data), range)
         IN  /\ date_range' = range
             /\ granularity' = gran
             /\ grouped' = PeriodCategorySums(df_exp, gran)
             /\ totals' = PeriodSums(df_exp, gran)
    /\ page' = "Spending Over Time"
    /\ pc' = "done"
    /\ UNCHANGED <<uploaded_files, i, bank, dfs, warnings, concat_data,
                   all_data, months, selected_month, month_df, spending,
                   income, net, cat_sum, category, shown>>

-----------------------------------------------------------------------------
(* Specifications.                                                         *)

Next ==
    \/ ProcessFile
    \/ ConcatAndFilter
    \/ NoData
    \/ Dashboard
    \/ SpendingOverTime

Spec == Init /\ [][Next]_vars

\* The detector and the normalizers on one table of any header set.
NextNorm == ProcessFile

SpecNorm == InitNorm /\ [][NextNorm]_vars

-----------------------------------------------------------------------------
(* Properties of the detector and the normalizers, under SpecNorm: the     *)
(* one table is uploaded_files[1], and once it is processed (i = 1) its    *)
(* canonical rows are dfs[1], or its warning is warnings[1].               *)

TheFile == uploaded_files[1]

TheTable == TheFile.df

Processed == i = 1

Normalized == Processed /\ Len(dfs) = 1 /\ warnings = <<>>

Failed == Processed /\ dfs = <<>> /\ Len(warnings) = 1

\* The source cell of a row, when the table has the column.
HasCell(r, col) == col \in TheTable.columns

RawCell(r, col) == TheTable.rows[r][col]

\* A cell that holds a number as read.
IsNumber(cell) == cell.k = "num"

C6_SignConvention ==
    Normalized =>
        \A r \in DOMAIN TheTable.rows :
            /\ (bank = "chase" /\ IsNumber(RawCell(r, "Amount"))) =>
                  LET v == RawCell(r, "Amount").n
                  IN  /\ dfs[1][r].amount = Some(0 - v)
                      /\ v < 0 => dfs[1][r].amount[1] > 0
                      /\ v > 0 => dfs[1][r].amount[1] < 0
            /\ (bank = "capone" /\ IsNumber(RawCell(r, "Debit"))
                  /\ RawCell(r, "Debit").n > 0
                  /\ RawCell(r, "Credit").k = "nan") =>
                  dfs[1][r].amount = Some(RawCell(r, "Debit").n)
            /\ (bank = "capone" /\ IsNumber(RawCell(r, "Credit"))
                  /\ RawCell(r, "Credit").n > 0
                  /\ RawCell(r, "Debit").k = "nan") =>
                  /\ ~IsNull(dfs[1][r].amount)
                  /\ dfs[1][r].amount[1] < 0

C6_Witness ==
    /\ Normalized
    /\ bank = "chase"
    /\ \E r \in DOMAIN TheTable.rows :
          /\ IsNumber(RawCell(r, "Amount"))
          /\ RawCell(r, "Amount").n < 0
          /\ dfs[1][r].amount[1] > 0

\* The candidate mappings of a source, in their priority order.
Candidates(b) == IF b = "chase" THEN CHASE_MAPS ELSE <<CAPONE_MAP>>

Satisfied(mapping) == \A col \in DOMAIN mapping : col \in TheTable.columns

NoneSatisfied(b) ==
    \A m \in DOMAIN Candidates(b) : ~Satisfied(Candidates(b)[m])

\* The columns that some candidate of the source asks for and the table lacks.
MissingColumns(b) ==
    UNION {DOMAIN Candidates(b)[m] : m \in DOMAIN Candidates(b)}
        \ TheTable.columns

\* The date column of the first Chase mapping the table satisfies.
FirstChaseDate ==
    IF Satisfied(CHASE_MAPS[1]) THEN "Trans Date" ELSE "Transaction Date"

BothChaseMappingsReached ==
    /\ Normalized
    /\ bank = "chase"
    /\ Satisfied(CHASE_MAPS[1])
    /\ Satisfied(CHASE_MAPS[2])
    /\ \E r \in DOMAIN TheTable.rows :
          to_datetime(RawCell(r, "Trans Date"))
              # to_datetime(RawCell(r, "Transaction Date"))

\* The number a debit or credit cell counts for: zero when the column is
\* absent or the cell is not a number.
CountsFor(r, col) ==
    IF HasCell(r, col) THEN fillna0(to_numeric(RawCell(r, col))) ELSE 0

\* C3: every row of a table normalized as Capital One has the amount
\* debit - credit, an unparsable value and an absent Debit or Credit column
\* counting as zero; the amount is never null and the absence of one of the
\* two columns does not make the normalization fail.
C3_AsStated ==
    (Processed /\ bank = "capone" /\ "Transaction Date" \in TheTable.columns) =>
        /\ Normalized
        /\ Len(dfs[1]) = Len(TheTable.rows)
        /\ \A r \in DOMAIN TheTable.rows :
              dfs[1][r].amount = Some(CountsFor(r, "Debit") - CountsFor(r, "Credit"))

\* The columns a source's date and amount are read from.
HasDateAndAmount ==
    IF bank = "chase"
    THEN /\ "Amount" \in TheTable.columns
         /\ \/ "Trans Date" \in TheTable.columns
            \/ "Transaction Date" \in TheTable.columns
    ELSE {"Transaction Date", "Debit", "Credit"} \subseteq TheTable.columns

\* C4: a Chase or Capital One table that has the source's date and amount
\* columns but lacks the category or the description column is normalized,
\* every row carrying null for the column that is missing.
C4_AsStated ==
    (Processed /\ bank \in {"chase", "capone"} /\ HasDateAndAmount) =>
        /\ Normalized
        /\ Len(dfs[1]) = Len(TheTable.rows)
        /\ \A r \in DOMAIN TheTable.rows :
              /\ "Category" \notin TheTable.columns => IsNull(dfs[1][r].category)
              /\ "Description" \notin TheTable.columns =>
                    IsNull(dfs[1][r].description)

-----------------------------------------------------------------------------
(* Properties of the batch and of the pages, under Spec.                   *)

Count(x, seq) == Cardinality({k \in DOMAIN seq : seq[k] = x})

\* A file's detection and normalization both succeed.
Succeeds(file) ==
    /\ detect_bank(file.df) # "unknown"
    /\ Normalize(detect_bank(file.df), file.df).ok

\* The canonical rows of a file that succeeds.
RowsOf(file) ==
    LET res == Normalize(detect_bank(file.df), file.df)
    IN  [r \in DOMAIN res.rows |-> WithGrouped(res.rows[r])]

RECURSIVE SumOfCounts(_, _, _)
SumOfCounts(x, rowsOfFile, files) ==
    IF files = {} THEN 0
    ELSE LET k == CHOOSE f \in files : TRUE
         IN  Count(x, rowsOfFile[k]) + SumOfCounts(x, rowsOfFile, files \ {k})

\* The files handled so far, and those among them that succeed.
Handled == 1..i

Good == {k \in Handled : Succeeds(uploaded_files[k])}

WarningsNaming(k) ==
    {w \in DOMAIN warnings : InStr(uploaded_files[k].name, warnings[w])}

\* The upload is as the loop, the concatenation and the filter leave it: no
\* page has been rendered from it yet (a page changes none of it).
Uploading == page = ""

\* C1: whatever the order of the files, the rows collected are, as a
\* multiset, the rows of exactly the files whose detection and
\* normalization succeeded; a file that fails adds no row and exactly one
\* warning, which names it; no failure keeps a later file from being
\* handled, and the collection before the payment filter is these rows.
C1_PartialFailureIsolation ==
    Uploading =>
        LET good       == Good
            rowsOfFile == [k \in good |-> RowsOf(uploaded_files[k])]
            collected  == concat(dfs)
            known      == UNION {Range(rowsOfFile[k]) : k \in good}
                             \cup Range(collected)
        IN  /\ \A x \in known :
                  Count(x, collected) = SumOfCounts(x, rowsOfFile, good)
            /\ \A k \in Handled :
                  Cardinality(WarningsNaming(k)) = IF k \in good THEN 0 ELSE 1
            /\ Len(warnings) = Cardinality(Handled \ good)
            /\ pc # "loop" => i = Len(uploaded_files)
            /\ pc = "page" => concat_data = collected

\* A batch of three files whose second fails normalization and whose first
\* and third are collected.
C1_Witness ==
    /\ pc = "page"
    /\ Len(uploaded_files) = 3
    /\ Good = {1, 3}
    /\ detect_bank(uploaded_files[2].df) # "unknown"
    /\ Len(concat_data) = Len(RowsOf(uploaded_files[1])) + Len(RowsOf(uploaded_files[3]))
    /\ concat_data # <<>>

\* p occurs in s at some offset.
Contains(s, p) ==
    \E k \in 1..(Len(s) - Len(p) + 1) : SubSeq(s, k, k + Len(p) - 1) = p

\* A row the payment filter is to remove.
IsNoise(row) ==
    /\ ~IsNull(row.description)
    /\ \E k \in DOMAIN PAYMENT_PHRASES :
          Contains(lower(row.description[1]), PAYMENT_PHRASES[k])

KeepTest(row) == ~IsNoise(row)

\* C7: after the payment filter the collection is the concatenated one
\* without exactly the rows whose description is not null and, lower-cased,
\* contains a payment phrase; the rows kept are unchanged and in order.
C7_NoiseFilter ==
    pc = "page" => all_data = SelectSeq(concat_data, KeepTest)

\* A description that matches a phrase only after lower-casing was removed,
\* and a row with a null description was kept.
C7_Witness ==
    /\ pc = "page"
    /\ \E k \in DOMAIN concat_data :
          /\ IsNoise(concat_data[k])
          /\ \A p \in DOMAIN PAYMENT_PHRASES :
                ~Contains(concat_data[k].description[1], PAYMENT_PHRASES[p])
          /\ Count(concat_data[k], all_data) = 0
    /\ \E k \in DOMAIN all_data : IsNull(all_data[k].description)

\* The sum of the amounts of the rows of all_data at the positions in S.
RECURSIVE SumAt(_)
SumAt(S) ==
    IF S = {} THEN 0
    ELSE LET k == CHOOSE x \in S : TRUE
         IN  all_data[k].amount[1] + SumAt(S \ {k})

\* The positions of the rows of the selected month.
InMonth == {k \in DOMAIN all_data : MonthKey(all_data[k].date) = selected_month}

Spent(S) == {k \in S : ~IsNull(all_data[k].amount) /\ all_data[k].amount[1] > 0}

Earned(S) == {k \in S : ~IsNull(all_data[k].amount) /\ all_data[k].amount[1] < 0}

OnDashboard == pc = "done" /\ page = "Dashboard"

\* C9: the summary of the selected period has spending equal to the sum of
\* the strictly positive amounts of the period's rows, income equal to minus
\* the sum of the strictly negative ones, and net = income - spending; all
\* three are zero when no row is of the period.
C9_PeriodSummary ==
    OnDashboard =>
        /\ spending = SumAt(Spent(InMonth))
        /\ income = 0 - SumAt(Earned(InMonth))
        /\ net = income - spending
        /\ InMonth = {} => (spending = 0 /\ income = 0 /\ net = 0)

\* January rows +50, +30 and -1000 give spending 80, income 1000, net 920.
C9_Witness ==
    /\ OnDashboard
    /\ selected_month = "2024-01"
    /\ {all_data[k].amount : k \in InMonth} = {Some(50), Some(30), Some(0 - 1000)}
    /\ Cardinality(InMonth) = 3
    /\ spending = 80
    /\ income = 1000
    /\ net = 920

\* The summary of a period that no row is of.
EmptyPeriodReached == OnDashboard /\ InMonth = {} /\ net = 0

OnSpendingOverTime == pc = "done" /\ page = "Spending Over Time"

\* The positions of the rows the time series is made of: a strictly
\* positive amount and a date inside the chosen range.
Charted ==
    {k \in DOMAIN all_data :
        /\ ~IsNull(all_data[k].amount)
        /\ all_data[k].amount[1] > 0
        /\ InRange(all_data[k].date, date_range)}

\* The date a period key reads as: <<year, month>> for "YYYY-MM",
\* <<year, month, day>> for "YYYY-MM-DD", and <<>> for anything else.
KeyReadsAs(key) ==
    IF /\ Len(key) = 7
       /\ CharAt(key, 5) = "-"
       /\ AllDigits(SubSeq(key, 1, 4) \o SubSeq(key, 6, 7))
    THEN <<DigitsVal(SubSeq(key, 1, 4), 0), DigitsVal(SubSeq(key, 6, 7), 0)>>
    ELSE IF /\ Len(key) = 10
            /\ CharAt(key, 5) = "-"
            /\ CharAt(key, 8) = "-"
            /\ AllDigits(SubSeq(key, 1, 4) \o SubSeq(key, 6, 7)
                            \o SubSeq(key, 9, 10))
    THEN <<DigitsVal(SubSeq(key, 1, 4), 0), DigitsVal(SubSeq(key, 6, 7), 0),
           DigitsVal(SubSeq(key, 9, 10), 0)>>
    ELSE <<>>

\* The period of a date under the chosen granularity.
PeriodOf(date) ==
    IF granularity = "Month" THEN <<date[1], date[2]>> ELSE date

\* Chronological order of two periods of the same granularity.
PeriodBefore(p, q) ==
    \/ p[1] < q[1]
    \/ p[1] = q[1] /\ p[2] < q[2]
    \/ Len(p) = 3 /\ p[1] = q[1] /\ p[2] = q[2] /\ p[3] < q[3]

\* The charted rows of a bucket.
RowsOfBucket(b) ==
    {k \in Charted :
        /\ PeriodOf(all_data[k].date) = KeyReadsAs(b.period)
        /\ all_data[k].grouped_category = b.grouped_category}

RECURSIVE SumOfBuckets(_)
SumOfBuckets(B) ==
    IF B = {} THEN 0
    ELSE LET b == CHOOSE x \in B : TRUE
         IN  b.amount + SumOfBuckets(B \ {b})

\* C10: the time series has one bucket for each (period, grouped category)
\* that has a charted row, holding the sum of the amounts of these rows; the
\* total of a period is the sum of its buckets; the keys read "YYYY-MM"
\* under month granularity and "YYYY-MM-DD" under day granularity, so rows
\* of one month and category share a bucket by month and rows of different
\* days never share one by day; string order of the keys is chronological.
C10_TimeSeries ==
    OnSpendingOverTime =>
        /\ \A b \in grouped :
              /\ Len(KeyReadsAs(b.period)) =
                    (IF granularity = "Month" THEN 2 ELSE 3)
              /\ RowsOfBucket(b) # {}
              /\ b.amount = SumAt(RowsOfBucket(b))
        /\ \A k \in Charted : \E b \in grouped : k \in RowsOfBucket(b)
        /\ \A b1, b2 \in grouped :
              (b1.period = b2.period
                  /\ b1.grouped_category = b2.grouped_category) => b1 = b2
        /\ {t.period : t \in totals} = {b.period : b \in grouped}
        /\ \A t \in totals :
              t.amount = SumOfBuckets({b \in grouped : b.period = t.period})
        /\ \A t1, t2 \in totals : t1.period = t2.period => t1 = t2
        /\ \A b1, b2 \in grouped :
              StrLess(b1.period, b2.period) <=>
                  PeriodBefore(KeyReadsAs(b1.period), KeyReadsAs(b2.period))

\* By month, two rows of different days of January share the bucket
\* "2024-01" of their category, beside buckets of February and October.
C10_Witness ==
    /\ OnSpendingOverTime
    /\ granularity = "Month"
    /\ \E b \in grouped :
          /\ b.period = "2024-01"
          /\ \E j, k \in RowsOfBucket(b) : all_data[j].date[3] # all_data[k].date[3]
    /\ {"2024-02", "2024-10"} \subseteq {b.period : b \in grouped}

\* By day, the same two rows stay in the buckets of their own days.
DayBucketsReached ==
    /\ OnSpendingOverTime
    /\ granularity = "Day"
    /\ \E b1, b2 \in grouped :
          /\ b1.period = "2024-01-05"
          /\ b2.period = "2024-01-20"
          /\ b1.grouped_category = b2.grouped_category

\* C5: a row whose source date is unparsable has a null date and stays in
\* the collection, but is in no date-bounded output: not among the rows of
\* the date-range-filtered table, not charted in the time series, and not
\* among the rows that the summary and the category breakdown of a
\* selectable month are computed from.
C5_AsStated ==
    /\ OnDashboard =>
          /\ \A k \in DOMAIN month_df : ~IsNull(month_df[k].date)
          /\ all_data # <<>> => \A k \in DOMAIN shown : ~IsNull(shown[k].date)
    /\ OnSpendingOverTime =>
          \A b \in grouped : Len(KeyReadsAs(b.period)) >= 2

\* What of C5 the pages do keep: the filtered table and the time series
\* hold no row with a null date.
NullDatesOutOfRanges ==
    /\ (OnDashboard /\ all_data # <<>>) =>
          \A k \in DOMAIN shown : ~IsNull(shown[k].date)
    /\ OnSpendingOverTime =>
          \A b \in grouped : Len(KeyReadsAs(b.period)) >= 2

=============================================================================
